---- MODULE Spec2Model ----
(***************************************************************************)
(* A model of the queue core of autopost.py: reading the CSV queue         *)
(* (read_queue_rows, strip_all, normalize_row), resolving a row's          *)
(* schedule (smart_pick_date_time, parse_wib_time), selecting the due job  *)
(* (pick_job), rewriting the queue (write_rows_with_header, mark_posted)   *)
(* and the run of main() around them.                                      *)
(*                                                                         *)
(* Text is a TLA+ string; Len, SubSeq and \o act on it character by        *)
(* character.  A CSV cell as csv.DictReader yields it is either a string   *)
(* s, written <<s>>, or Python's None (a cell missing from a short line),  *)
(* written <<>>.  A row is a function from column names to cells.          *)
(***************************************************************************)
EXTENDS Integers, Sequences, FiniteSets, TLC

VARIABLES
    queue,     \* the rows csv.DictReader yields from the queue file
    now,       \* the WIB clock as last read, in seconds
    pc,        \* where the run of main() stands
    args,      \* the command line of the run
    job,       \* what pick_job returned to the run
    out_path,  \* the file name render_video returned
    video_id,  \* what upload_youtube_short returned ("" before)
    calls,     \* direct calls of mark_posted made so far
    op,        \* the last operation on the queue: its arguments and result
    before,    \* the queue file as that operation found it
    prev,      \* the row the run before selected and did not mark (0: none)
    pending,   \* per process, the call of mark_posted that has read the
               \* queue file and not yet rewritten it
    telegram   \* what the run has sent to Telegram, in order

vars ==
    <<queue, now, pc, args, job, out_path, video_id, calls, op, before, prev,
      pending, telegram>>

---------------------------------------------------------------------------
(* Python values and string methods *)

None == <<>>

S(s) == <<s>>

\* `x or ""` for a cell x: None and "" both give "".
OrEmpty(c) == IF c = None THEN "" ELSE c[1]

Char(s, i) == SubSeq(s, i, i)

\* The characters str.strip() removes; of them the inputs hold the blank.
Whitespace == {" "}

Digits == {"0", "1", "2", "3", "4", "5", "6", "7", "8", "9"}

DigitVal == [c \in Digits |->
    CASE c = "0" -> 0 [] c = "1" -> 1 [] c = "2" -> 2 [] c = "3" -> 3
      [] c = "4" -> 4 [] c = "5" -> 5 [] c = "6" -> 6 [] c = "7" -> 7
      [] c = "8" -> 8 [] c = "9" -> 9]

RECURSIVE LStrip(_)
LStrip(s) ==
    IF Len(s) > 0 /\ Char(s, 1) \in Whitespace
    THEN LStrip(SubSeq(s, 2, Len(s)))
    ELSE s

RECURSIVE RStrip(_)
RStrip(s) ==
    IF Len(s) > 0 /\ Char(s, Len(s)) \in Whitespace
    THEN RStrip(SubSeq(s, 1, Len(s) - 1))
    ELSE s

\* str.strip()
Strip(s) == RStrip(LStrip(s))

\* str.startswith(p)
StartsWith(s, p) == Len(s) >= Len(p) /\ SubSeq(s, 1, Len(p)) = p

\* `m in s` for strings: m occurs in s as a substring.
Contains(s, m) ==
    \E i \in 0..(Len(s) - Len(m)) : SubSeq(s, i + 1, i + Len(m)) = m

\* The first position of character c in s, or 0.
IndexOf(s, c) ==
    IF \E i \in 1..Len(s) : Char(s, i) = c
    THEN CHOOSE i \in 1..Len(s) :
            /\ Char(s, i) = c
            /\ \A j \in 1..(i - 1) : Char(s, j) # c
    ELSE 0

\* str.replace(a, b) for single characters a and b.
RECURSIVE Replace(_, _, _)
Replace(s, a, b) ==
    IF Len(s) = 0 THEN ""
    ELSE (IF Char(s, 1) = a THEN b ELSE Char(s, 1))
            \o Replace(SubSeq(s, 2, Len(s)), a, b)

AllDigits(s) == \A i \in 1..Len(s) : Char(s, i) \in Digits

RECURSIVE ToInt(_)
ToInt(s) ==
    IF Len(s) = 0 THEN 0
    ELSE 10 * ToInt(SubSeq(s, 1, Len(s) - 1)) + DigitVal[Char(s, Len(s))]

---------------------------------------------------------------------------
(* The CSV header and its aliases *)

EXPECTED_HEADERS ==
    <<"Tanggal", "Judul", "Teks", "Hashtag", "LinkAffiliate", "BG", "Music",
      "Status", "JamWIB">>

ExpectedKeys == {EXPECTED_HEADERS[i] : i \in 1..Len(EXPECTED_HEADERS)}

ALIAS_TO_ID ==
    [en \in {"date", "title", "description", "hashtags", "link", "bg",
             "music", "status", "time"} |->
        CASE en = "date" -> "Tanggal"
          [] en = "title" -> "Judul"
          [] en = "description" -> "Teks"
          [] en = "hashtags" -> "Hashtag"
          [] en = "link" -> "LinkAffiliate"
          [] en = "bg" -> "BG"
          [] en = "music" -> "Music"
          [] en = "status" -> "Status"
          [] en = "time" -> "JamWIB"]

\* dict.get(k, "")
Get(row, k) == IF k \in DOMAIN row THEN row[k] ELSE S("")

\* strip_all: every string value stripped, None kept.
strip_all(row) ==
    [k \in DOMAIN row |-> IF row[k] = None THEN None ELSE S(Strip(row[k][1]))]

\* The alias loop of read_queue_rows: an English column fills the
\* Indonesian one when that key is absent and the English value is not
\* None or "".
WithAliases(row) ==
    LET filled == {en \in DOMAIN ALIAS_TO_ID :
                      /\ ALIAS_TO_ID[en] \notin DOMAIN row
                      /\ en \in DOMAIN row
                      /\ row[en] # None
                      /\ row[en] # S("")}
        newKeys == {ALIAS_TO_ID[en] : en \in filled}
    IN  [k \in (DOMAIN row) \cup newKeys |->
            IF k \in DOMAIN row THEN row[k]
            ELSE row[CHOOSE en \in filled : ALIAS_TO_ID[en] = k]]

\* read_queue_rows on the rows csv.DictReader yields from the file.
read_queue_rows(file) ==
    [i \in 1..Len(file) |-> WithAliases(strip_all(file[i]))]

\* normalize_row: the nine expected keys, "" for an absent key; a key present
\* with None stays None.
normalize_row(row) == [k \in ExpectedKeys |-> Get(row, k)]

---------------------------------------------------------------------------
(* The fallback scan for a date or a time in any column *)

Letters ==
    {"a", "b", "c", "d", "e", "f", "g", "h", "i", "j", "k", "l", "m", "n",
     "o", "p", "q", "r", "s", "t", "u", "v", "w", "x", "y", "z",
     "A", "B", "C", "D", "E", "F", "G", "H", "I", "J", "K", "L", "M", "N",
     "O", "P", "Q", "R", "S", "T", "U", "V", "W", "X", "Y", "Z"}

\* The regular expression class \w.
WordChars == Letters \cup Digits \cup {"_"}

\* \b before position p and after position q of text, where the characters
\* at p and q are word characters.
WordBounded(text, p, q) ==
    /\ (p = 1 \/ Char(text, p - 1) \notin WordChars)
    /\ (q = Len(text) \/ Char(text, q + 1) \notin WordChars)

\* A pattern of \d and literal characters, written with "d" for \d, matches
\* text at position p between two \b.
ShapeAt(text, p, shape) ==
    /\ p + Len(shape) - 1 <= Len(text)
    /\ \A k \in 1..Len(shape) :
          IF Char(shape, k) = "d"
          THEN Char(text, p + k - 1) \in Digits
          ELSE Char(text, p + k - 1) = Char(shape, k)
    /\ WordBounded(text, p, p + Len(shape) - 1)

DATE_PATTERNS == <<"dddd-dd-dd", "dddd/dd/dd", "dd-dd-dddd", "dd/dd/dddd">>

\* TIME_PATTERN, \b([01]\d|2[0-3]):[0-5]\d\b, at position p of text.
TimeAt(text, p) ==
    /\ p + 4 <= Len(text)
    /\ \/ Char(text, p) \in {"0", "1"} /\ Char(text, p + 1) \in Digits
       \/ Char(text, p) = "2" /\ Char(text, p + 1) \in {"0", "1", "2", "3"}
    /\ Char(text, p + 2) = ":"
    /\ Char(text, p + 3) \in {"0", "1", "2", "3", "4", "5"}
    /\ Char(text, p + 4) \in Digits
    /\ WordBounded(text, p, p + 4)

\* re.search returns the leftmost match: the n characters of text at the
\* smallest of the positions `hits`, or None when there is none.
LeftmostMatch(text, hits, n) ==
    IF hits = {} THEN None
    ELSE S(SubSeq(text, (CHOOSE h \in hits : \A g \in hits : h <= g),
                  (CHOOSE h \in hits : \A g \in hits : h <= g) + n - 1))

\* `if hit: return hit`, else go on.
FirstHit(hit, rest) == IF hit # None THEN hit ELSE rest

\* _find_first(DATE_PATTERNS, text): the first pattern, in list order from
\* the n-th on, that matches anywhere.
RECURSIVE FindFirstDateFrom(_, _)
FindFirstDateFrom(text, n) ==
    IF n > Len(DATE_PATTERNS) THEN None
    ELSE FirstHit(
            LeftmostMatch(text,
                {p \in 1..Len(text) : ShapeAt(text, p, DATE_PATTERNS[n])},
                Len(DATE_PATTERNS[n])),
            FindFirstDateFrom(text, n + 1))

\* _find_first(TIME_PATTERN, text)
FindFirstTime(text) ==
    LeftmostMatch(text, {p \in 1..Len(text) : TimeAt(text, p)}, 5)

\* `for v in row.values(): hit = _find_first(..., str(v or "")); if hit:
\* break`, over the values of a normalized row from the n-th column on, in
\* the order of EXPECTED_HEADERS.
RECURSIVE ScanDateFrom(_, _)
ScanDateFrom(row, n) ==
    IF n > Len(EXPECTED_HEADERS) THEN None
    ELSE FirstHit(FindFirstDateFrom(OrEmpty(row[EXPECTED_HEADERS[n]]), 1),
                  ScanDateFrom(row, n + 1))

RECURSIVE ScanTimeFrom(_, _)
ScanTimeFrom(row, n) ==
    IF n > Len(EXPECTED_HEADERS) THEN None
    ELSE FirstHit(FindFirstTime(OrEmpty(row[EXPECTED_HEADERS[n]])),
                  ScanTimeFrom(row, n + 1))

\* `if not own: own = scanned`
OrScanned(own, scanned) == IF own = "" THEN OrEmpty(scanned) ELSE own

\* smart_pick_date_time: the row's own Tanggal and JamWIB, each replaced by
\* the first hit of the scan when it is empty ("" when nothing is found).
smart_pick_date_time(row) ==
    [tanggal |-> OrScanned(Strip(OrEmpty(row["Tanggal"])),
                           ScanDateFrom(row, 1)),
     jam |-> OrScanned(Strip(OrEmpty(row["JamWIB"])), ScanTimeFrom(row, 1))]

---------------------------------------------------------------------------
(* parse_wib_time: datetime.strptime under four formats, anchored to WIB *)

IsLeap(y) == (y % 4 = 0 /\ y % 100 # 0) \/ y % 400 = 0

DaysInMonth(y, m) ==
    CASE m \in {1, 3, 5, 7, 8, 10, 12} -> 31
      [] m \in {4, 6, 9, 11} -> 30
      [] OTHER -> IF IsLeap(y) THEN 29 ELSE 28

RECURSIVE DaysBeforeMonth(_, _)
DaysBeforeMonth(y, m) ==
    IF m = 1 THEN 0 ELSE DaysBeforeMonth(y, m - 1) + DaysInMonth(y, m - 1)

\* date.toordinal(): the day number of y-m-d, 0001-01-01 being day 1.
Ordinal(y, m, d) ==
    365 * (y - 1) + ((y - 1) \div 4) - ((y - 1) \div 100)
        + ((y - 1) \div 400) + DaysBeforeMonth(y, m) + d

\* Instants are seconds of WIB civil time (a fixed offset, no daylight
\* saving) counted from 2024-01-01 00:00 WIB.
EpochOrdinal == Ordinal(2024, 1, 1)

\* Stands for the ValueError strptime raises.
Failed == [ok |-> FALSE, t |-> 0]

\* A field of one or two digits with its value in range: strptime's
\* %m (1[0-2]|0[1-9]|[1-9]) over 1..12, %d (3[01]|[12]\d|0[1-9]|[1-9]; its
\* " [1-9]" form, a day written with a leading blank, is left out) over
\* 1..31, %H (2[0-3]|[0-1]\d|\d) over 0..23, %M ([0-5]\d|\d) over 0..59.
ShortField(s, low, high) ==
    /\ Len(s) \in {1, 2}
    /\ AllDigits(s)
    /\ ToInt(s) >= low
    /\ ToInt(s) <= high

\* strptime's %Y: \d\d\d\d, and datetime's MINYEAR.
YearField(s) == Len(s) = 4 /\ AllDigits(s) /\ ToInt(s) >= 1

\* The text before and after position i, the character at i left out.
SplitAt(s, i) == <<SubSeq(s, 1, i - 1), SubSeq(s, i + 1, Len(s))>>

\* The text before the first character c and the text after it; <<>> when c
\* does not occur.
SplitFirst(s, c) == IF IndexOf(s, c) = 0 THEN <<>> ELSE SplitAt(s, IndexOf(s, c))

\* The pieces <<first, second, third>> from <<first, rest>> and the split of
\* rest.
JoinSplit(head, tail) ==
    IF head = <<>> \/ tail = <<>> THEN <<>> ELSE <<head[1], tail[1], tail[2]>>

SplitTail(head, c) == IF head = <<>> THEN <<>> ELSE SplitFirst(head[2], c)

\* The three fields of a date text around separator sep, or <<>> when the
\* text holds fewer than two separators.
DateFields(s, sep) ==
    JoinSplit(SplitFirst(s, sep), SplitTail(SplitFirst(s, sep), sep))

\* datetime(y, m, d, H, M): the day must exist in its month.
Instant(y, m, d, hh, mm) ==
    IF d <= DaysInMonth(y, m)
    THEN [ok |-> TRUE,
          t |-> (Ordinal(y, m, d) - EpochOrdinal) * 86400
                    + hh * 3600 + mm * 60]
    ELSE Failed

\* The fields as strptime's regular expression takes them.
FromFields(ys, ms, ds, hh, mm) ==
    IF /\ YearField(ys)
       /\ ShortField(ms, 1, 12)
       /\ ShortField(ds, 1, 31)
       /\ ShortField(hh, 0, 23)
       /\ ShortField(mm, 0, 59)
    THEN Instant(ToInt(ys), ToInt(ms), ToInt(ds), ToInt(hh), ToInt(mm))
    ELSE Failed

FromParts(date, time, yearFirst) ==
    IF date = <<>> \/ time = <<>> THEN Failed
    ELSE FromFields(IF yearFirst THEN date[1] ELSE date[3], date[2],
                    IF yearFirst THEN date[3] ELSE date[1], time[1], time[2])

FromHalves(halves, sep, yearFirst) ==
    IF halves = <<>> THEN Failed
    ELSE FromParts(DateFields(halves[1], sep),
                   SplitFirst(LStrip(halves[2]), ":"), yearFirst)

\* datetime.strptime(text, fmt) for the formats "%Y<sep>%m<sep>%d %H:%M"
\* (yearFirst) and "%d<sep>%m<sep>%Y %H:%M": the whole text must match, the
\* blank of the format matching a run of whitespace.
Strptime(text, sep, yearFirst) ==
    FromHalves(SplitFirst(text, " "), sep, yearFirst)

\* The `candidates` list of parse_wib_time for the stripped texts.
ParseCandidates(tgl, jam) ==
    << [sep |-> "-", yearFirst |-> TRUE, s |-> tgl \o " " \o jam],
       [sep |-> "/", yearFirst |-> TRUE,
        s |-> Replace(tgl, "-", "/") \o " " \o jam],
       [sep |-> "-", yearFirst |-> FALSE, s |-> tgl \o " " \o jam],
       [sep |-> "/", yearFirst |-> FALSE,
        s |-> Replace(tgl, "-", "/") \o " " \o jam] >>

\* `try: return strptime(...) except: last_err = e`
FirstParsed(parsed, rest) == IF parsed.ok THEN parsed ELSE rest

\* The loop over the candidates from the n-th on; Failed stands for the
\* exception raised when none parses.
RECURSIVE TryFrom(_, _)
TryFrom(cands, n) ==
    IF n > Len(cands) THEN Failed
    ELSE FirstParsed(Strptime(cands[n].s, cands[n].sep, cands[n].yearFirst),
                     TryFrom(cands, n + 1))

parse_wib_time(tanggal_str, jam_str) ==
    TryFrom(ParseCandidates(Strip(tanggal_str), Strip(jam_str)), 1)

---------------------------------------------------------------------------
(* pick_job: the due-job selection *)

\* Lines 218-225: the lateness test; <<candidate>> when the row is inside
\* the window, <<>> when it is skipped.
InWindow(row, idx_raw, scheduled_dt, lateness, max_late_seconds) ==
    IF ~(0 <= lateness /\ lateness <= max_late_seconds) THEN <<>>
    ELSE <<[scheduled_dt |-> scheduled_dt, row |-> row,
            lateness_sec |-> lateness, idx_raw |-> idx_raw]>>

\* A row whose date and time do not parse taken as due at the instant of
\* the run: what the `continue` of line 216 rules out.
IfParsedDueNow(row, idx_raw, parsed, clock, max_late_seconds) ==
    IF ~parsed.ok THEN InWindow(row, idx_raw, clock, 0, max_late_seconds)
    ELSE InWindow(row, idx_raw, parsed.t, clock - parsed.t, max_late_seconds)

\* Lines 212-218: a row whose date and time do not parse is skipped.
IfParsed(row, idx_raw, parsed, clock, max_late_seconds) ==
    IF ~parsed.ok THEN <<>>
    ELSE InWindow(row, idx_raw, parsed.t, clock - parsed.t, max_late_seconds)

\* Lines 208-213: a row with no date or no time is skipped.
IfDated(row, idx_raw, dt, clock, max_late_seconds) ==
    IF dt.tanggal = "" \/ dt.jam = "" THEN <<>>
    ELSE IfParsed(row, idx_raw, parse_wib_time(dt.tanggal, dt.jam), clock,
                  max_late_seconds)

\* Lines 202-207: the row's own date and time; when one of them is empty,
\* the empty one is taken from smart_pick_date_time.
OwnOrFallback(row, tanggal, jam) ==
    IF tanggal # "" /\ jam # "" THEN [tanggal |-> tanggal, jam |-> jam]
    ELSE smart_pick_date_time(row)

\* Lines 196-200: a row whose status starts with "POSTED" is skipped.
IfNotPosted(row, idx_raw, clock, max_late_seconds) ==
    IF StartsWith(OrEmpty(row["Status"]), "POSTED") THEN <<>>
    ELSE IfDated(row, idx_raw,
                 OwnOrFallback(row, Strip(OrEmpty(row["Tanggal"])),
                               Strip(OrEmpty(row["JamWIB"]))),
                 clock, max_late_seconds)

\* The loop body of pick_job for the row at position idx_raw (counted from
\* 1): <<candidate>> when the row passes every test, <<>> when it is
\* skipped.
CandidateOf(raw, idx_raw, clock, max_late_seconds) ==
    IfNotPosted(normalize_row(raw), idx_raw, clock, max_late_seconds)

\* The candidates list after the loop over rows 1..n, in row order.
RECURSIVE CandidatesUpTo(_, _, _, _)
CandidatesUpTo(rows, n, clock, max_late_seconds) ==
    IF n = 0 THEN <<>>
    ELSE CandidatesUpTo(rows, n - 1, clock, max_late_seconds)
            \o CandidateOf(rows[n], n, clock, max_late_seconds)

\* list.sort(key = lateness_sec) is stable: an element goes behind every
\* element of the sorted prefix whose key is not larger.
RECURSIVE InsertByLateness(_, _)
InsertByLateness(sorted, c) ==
    IF sorted = <<>> THEN <<c>>
    ELSE IF c.lateness_sec < sorted[Len(sorted)].lateness_sec
         THEN Append(InsertByLateness(SubSeq(sorted, 1, Len(sorted) - 1), c),
                     sorted[Len(sorted)])
         ELSE Append(sorted, c)

RECURSIVE SortByLateness(_)
SortByLateness(cands) ==
    IF cands = <<>> THEN <<>>
    ELSE InsertByLateness(SortByLateness(SubSeq(cands, 1, Len(cands) - 1)),
                          cands[Len(cands)])

\* Lines 227-234: None when there is no candidate, else the first of the
\* sorted candidates, of which the code returns (scheduled_dt, row).
Chosen(candidates) ==
    IF candidates = <<>> THEN None ELSE <<SortByLateness(candidates)[1]>>

CandidatesOf(rows, clock, max_late_seconds) ==
    CandidatesUpTo(rows, Len(rows), clock, max_late_seconds)

\* pick_job(csv_path, max_late_seconds), reading the clock as `clock`.
pick_job(file, clock, max_late_seconds) ==
    Chosen(CandidatesOf(read_queue_rows(file), clock, max_late_seconds))

---------------------------------------------------------------------------
(* write_rows_with_header and mark_posted *)

\* csv.DictWriter writes None as the empty string.
WrittenCell(c) == IF c = None THEN S("") ELSE c

\* The line written for a row; what a later csv.DictReader yields for it is
\* a string in every column.
WrittenRow(r) == [k \in ExpectedKeys |-> WrittenCell(Get(r, k))]

\* A rewrite that puts the rows down last to first: what
\* write_rows_with_header must not do.
write_rows_reversed(rows) ==
    [i \in 1..Len(rows) |-> WrittenRow(normalize_row(rows[Len(rows) + 1 - i]))]

\* write_rows_with_header: the file rewritten under the expected header,
\* one line per row of normalize_row(r), in order.
write_rows_with_header(rows) ==
    [i \in 1..Len(rows) |-> WrittenRow(normalize_row(rows[i]))]

\* One turn of the search loop of mark_posted on the normalized row r at
\* position i: .strip() on a None cell raises AttributeError.
MatchRow(r, i, tgt_tgl, tgt_judul, rest) ==
    IF r["Tanggal"] = None THEN [idx |-> 0, raised |-> TRUE]
    ELSE IF Strip(r["Tanggal"][1]) # tgt_tgl THEN rest
    ELSE IF r["Judul"] = None THEN [idx |-> 0, raised |-> TRUE]
    ELSE IF Strip(r["Judul"][1]) = tgt_judul
         THEN [idx |-> i, raised |-> FALSE]
    ELSE rest

\* The search loop from row i on: the position of the first row whose
\* stripped Tanggal and Judul equal the target's, 0 when there is none (the
\* code's idx == -1), and raised when the loop raises before it gets there.
RECURSIVE FindTarget(_, _, _, _)
FindTarget(rows, tgt_tgl, tgt_judul, i) ==
    IF i > Len(rows) THEN [idx |-> 0, raised |-> FALSE]
    ELSE MatchRow(normalize_row(rows[i]), i, tgt_tgl, tgt_judul,
                  FindTarget(rows, tgt_tgl, tgt_judul, i + 1))

\* mark = f"POSTED-{platform}" + (f"({note})" if note else "")
MarkToken(platform, note) ==
    "POSTED-" \o platform \o (IF note = "" THEN "" ELSE "(" \o note \o ")")

\* The new status replacing the old one: what line 268 rules out by keeping
\* `old` in front of the mark.
NewStatusOverwriting(old, mark) == mark

\* old if old and mark in old else (mark if not old else old + "|" + mark)
NewStatus(old, mark) ==
    IF old # "" /\ Contains(old, mark) THEN old
    ELSE IF old = "" THEN mark
    ELSE old \o "|" \o mark

\* rows[idx]["Status"] = status
WithStatus(row, status) ==
    [k \in (DOMAIN row) \cup {"Status"} |->
        IF k = "Status" THEN S(status) ELSE row[k]]

\* Lines 266-269: rows[idx].get("Status", "").strip() raises on None; else
\* the status is set and the file rewritten.
MarkFound(file, rows, idx, mark) ==
    IF Get(rows[idx], "Status") = None
    THEN [file |-> file, outcome |-> "raised", idx |-> idx]
    ELSE [file |-> write_rows_with_header(
                      [rows EXCEPT ![idx] =
                          WithStatus(rows[idx],
                              NewStatus(Strip(Get(rows[idx], "Status")[1]),
                                        mark))]),
          outcome |-> "written", idx |-> idx]

\* Lines 251-265: the empty file and the row that is not found are logged.
MarkAt(file, rows, found, mark) ==
    IF rows = <<>> THEN [file |-> file, outcome |-> "empty", idx |-> 0]
    ELSE IF found.raised THEN [file |-> file, outcome |-> "raised", idx |-> 0]
    ELSE IF found.idx = 0
         THEN [file |-> file, outcome |-> "not_found", idx |-> 0]
    ELSE MarkFound(file, rows, found.idx, mark)

MarkIn(file, rows, tgt, mark) ==
    MarkAt(file, rows,
           FindTarget(rows, Strip(OrEmpty(tgt["Tanggal"])),
                      Strip(OrEmpty(tgt["Judul"])), 1),
           mark)

\* mark_posted(csv_path, target_row, platform, note): the file afterwards
\* and how the call ended: "empty" and "not_found" return after logging,
\* "raised" leaves by an AttributeError, "written" has rewritten the file.
mark_posted(file, target_row, platform, note) ==
    MarkIn(file, read_queue_rows(file), normalize_row(target_row),
           MarkToken(platform, note))

---------------------------------------------------------------------------
(* render_video's output name *)

RECURSIVE KeepChars(_, _)
KeepChars(s, keep) ==
    IF Len(s) = 0 THEN ""
    ELSE (IF Char(s, 1) \in keep THEN Char(s, 1) ELSE "")
            \o KeepChars(SubSeq(s, 2, Len(s)), keep)

\* re.sub(r"\s+", "_", name): every run of whitespace becomes one "_".
RECURSIVE SquashBlanks(_)
SquashBlanks(s) ==
    IF Len(s) = 0 THEN ""
    ELSE IF Char(s, 1) \in Whitespace
         THEN "_" \o SquashBlanks(LStrip(s))
         ELSE Char(s, 1) \o SquashBlanks(SubSeq(s, 2, Len(s)))

RECURSIVE StripUnderscores(_)
StripUnderscores(s) ==
    IF Len(s) > 0 /\ Char(s, 1) = "_"
    THEN StripUnderscores(SubSeq(s, 2, Len(s)))
    ELSE IF Len(s) > 0 /\ Char(s, Len(s)) = "_"
         THEN StripUnderscores(SubSeq(s, 1, Len(s) - 1))
         ELSE s

sanitize_filename(name) ==
    LET cleaned == StripUnderscores(SquashBlanks(
                      KeepChars(name, WordChars \cup Whitespace \cup {"-"})))
    IN  IF Len(cleaned) > 80 THEN SubSeq(cleaned, 1, 80) ELSE cleaned

\* os.path.basename of render_video's out_path for a normalized row whose
\* Tanggal is a string.
OutName(row) ==
    LET title == IF OrEmpty(row["Judul"]) = "" THEN "Tanpa Judul"
                 ELSE row["Judul"][1]
    IN  sanitize_filename(row["Tanggal"][1]) \o "_"
            \o sanitize_filename(title) \o ".mp4"

---------------------------------------------------------------------------
(* The queues, clocks and command lines the model runs on *)

MaxRows == 2

MaxCalls == 2

\* A full line of the queue file under the expected header.
Line(tanggal, judul, teks, status, jam) ==
    [k \in ExpectedKeys |->
        CASE k = "Tanggal" -> S(tanggal)
          [] k = "Judul" -> S(judul)
          [] k = "Teks" -> S(teks)
          [] k = "Status" -> S(status)
          [] k = "JamWIB" -> S(jam)
          [] OTHER -> S("")]

\* A line cut short after its first n cells: csv.DictReader gives None for
\* the columns the line does not reach.
ShortLine(line, n) ==
    [k \in ExpectedKeys |->
        IF \E i \in 1..n : EXPECTED_HEADERS[i] = k THEN line[k] ELSE None]

\* The lines a queue is authored from: a plain row due at 09:00; a row due
\* at 10:00 in a secondary date format, with blanks around its cells and a
\* free-form status; a row due at 10:00 already posted to YT; a short line
\* whose time (10:00) is found by the fallback scan; a short line holding
\* only a date.
RowPool ==
    { Line("2024-01-01", "A", "pagi", "", "09:00"),
      Line(" 01/01/2024", "B ", "siang", " DRAFT", "10:00 "),
      Line("2024-01-01", "C", "siang", "POSTED-YT", "10:00"),
      ShortLine(Line("2024-01-01", "H", "tayang 10:00", "", ""), 3),
      ShortLine(Line("2024-01-01", "", "", "", ""), 1) }

\* The same line in a file whose header uses the English column names.
EnglishLine(line) ==
    [en \in DOMAIN ALIAS_TO_ID |-> line[ALIAS_TO_ID[en]]]

RECURSIVE SeqsUpTo(_, _)
SeqsUpTo(set, n) ==
    IF n = 0 THEN {<<>>}
    ELSE LET shorter == SeqsUpTo(set, n - 1)
         IN  shorter \cup {Append(q, r) : q \in shorter, r \in set}

\* The files: up to MaxRows lines under the expected header, or the same
\* under the English header.
Files ==
    LET plain == SeqsUpTo(RowPool, MaxRows)
    IN  plain \cup {[i \in 1..Len(q) |-> EnglishLine(q[i])] : q \in plain}

\* Clock readings of 2024-01-01 around the schedules 09:00 and 10:00:
\* 09:59:59, 10:00:00, 11:00:00 and 11:00:01.
Clocks == {35999, 36000, 39600, 39601}

\* --max-late, in seconds: none, or one hour.
MaxLates == {0, 3600}

Platforms == {"YT", "TG"}

\* The platform tag and the note of a direct call of mark_posted.
CallTags ==
    { [platform |-> "YT", note |-> ""],
      [platform |-> "TG", note |-> ""],
      [platform |-> "YT ", note |-> ""],
      [platform |-> "YT", note |-> "abc123"] }

VideoIds == {"abc123"}

NoOp ==
    [kind |-> "none", platform |-> "", note |-> "", target |-> <<>>,
     clock |-> 0, max_late_seconds |-> 0, result |-> None,
     outcome |-> "", idx |-> 0]

NoArgs ==
    [platform |-> "", max_late_seconds |-> 0, dry_run |-> FALSE,
     skip_upload |-> FALSE]

\* The processes that may run at once.
Procs == {1, 2}

\* No call of mark_posted is under way.
NoPending == [proc \in Procs |-> None]

Init ==
    /\ queue \in Files
    /\ now = 0
    /\ pc = "idle"
    /\ args = NoArgs
    /\ job = None
    /\ out_path = ""
    /\ video_id = ""
    /\ calls = 0
    /\ op = NoOp
    /\ before = <<>>
    /\ prev = 0
    /\ pending = NoPending
    /\ telegram = <<>>

---------------------------------------------------------------------------
(* main(): one run of the script, step by step *)

\* Lines 646-655: the run starts, reads the clock inside pick_job (later
\* than any run before it did) and either returns ("no job due") or goes on
\* to render the chosen row.
Start(p, m, d, s, t) ==
    /\ pc = "idle"
    /\ t > now
    /\ job' = pick_job(queue, t, m)
    /\ pc' = IF job' = None THEN "no_job" ELSE "render"
    /\ op' = [NoOp EXCEPT !.kind = "pick", !.platform = p, !.clock = t,
                          !.max_late_seconds = m, !.result = job']
    /\ now' = t
    /\ args' = [platform |-> p, max_late_seconds |-> m, dry_run |-> d,
                skip_upload |-> s]
    /\ before' = queue
    /\ UNCHANGED <<queue, out_path, video_id, calls, prev, pending, telegram>>

\* Lines 664-667: render_video (narration, then the video) returns the
\* output path.  It cannot when the row's Tanggal is None: sanitize_filename
\* raises on it.
RenderOk ==
    /\ pc = "render"
    /\ job[1].row["Tanggal"] # None
    /\ out_path' = OutName(job[1].row)
    /\ pc' = "upload"
    /\ UNCHANGED <<queue, now, args, job, video_id, calls, op, before, prev,
                   pending, telegram>>

\* A failure path that marks the row before it raises again: what lines
\* 668-670 must not do.
RenderFailMarking ==
    /\ pc = "render"
    /\ queue' = mark_posted(queue, job[1].row, args.platform, "").file
    /\ pc' = "aborted"
    /\ UNCHANGED <<now, args, job, out_path, video_id, calls, op, before,
                   prev, pending, telegram>>

\* Lines 668-670: render_video raised; main logs and re-raises.
RenderFail ==
    /\ pc = "render"
    /\ pc' = "aborted"
    /\ UNCHANGED <<queue, now, args, job, out_path, video_id, calls, op,
                   before, prev, pending, telegram>>

\* Lines 673-675: the upload returns the video id.
UploadOk(id) ==
    /\ pc = "upload"
    /\ ~args.dry_run /\ ~args.skip_upload
    /\ video_id' = id
    /\ pc' = "mark"
    /\ UNCHANGED <<queue, now, args, job, out_path, calls, op, before, prev,
                   pending, telegram>>

\* Lines 676-678: the upload raised; main logs and re-raises.
UploadFail ==
    /\ pc = "upload"
    /\ ~args.dry_run /\ ~args.skip_upload
    /\ pc' = "aborted"
    /\ UNCHANGED <<queue, now, args, job, out_path, video_id, calls, op,
                   before, prev, pending, telegram>>

\* Lines 679-680: --dry-run or --skip-upload, no upload.
UploadSkip ==
    /\ pc = "upload"
    /\ args.dry_run \/ args.skip_upload
    /\ pc' = "mark"
    /\ UNCHANGED <<queue, now, args, job, out_path, video_id, calls, op,
                   before, prev, pending, telegram>>

\* The queue file as a call of mark_posted that ended as r leaves it, and
\* the record of the call.
Marked(target, platform, note, r) ==
    /\ queue' = r.file
    /\ op' = [NoOp EXCEPT !.kind = "mark", !.platform = platform,
                          !.note = note, !.target = target,
                          !.outcome = r.outcome, !.idx = r.idx]
    /\ before' = queue

\* Lines 683-688: mark_posted with the video id, or the output file's name
\* when there is none; an exception of mark_posted is logged and dropped.
MarkPosted ==
    /\ pc = "mark"
    /\ ~args.dry_run
    /\ Marked(job[1].row, args.platform,
              IF video_id # "" THEN video_id ELSE out_path,
              mark_posted(queue, job[1].row, args.platform,
                          IF video_id # "" THEN video_id ELSE out_path))
    /\ pc' = "finished"
    /\ UNCHANGED <<now, args, job, out_path, video_id, calls, prev, pending,
                   telegram>>

\* A dry run that marks the row all the same: what lines 683 and 689-690
\* rule out.
MarkSkipMarking ==
    /\ pc = "mark"
    /\ args.dry_run
    /\ queue' = mark_posted(queue, job[1].row, args.platform, out_path).file
    /\ pc' = "finished"
    /\ UNCHANGED <<now, args, job, out_path, video_id, calls, op, before, prev,
                   pending, telegram>>

\* Lines 689-690: --dry-run, the queue is not marked.
MarkSkip ==
    /\ pc = "mark"
    /\ args.dry_run
    /\ pc' = "finished"
    /\ UNCHANGED <<queue, now, args, job, out_path, video_id, calls, op,
                   before, prev, pending, telegram>>

\* The process is killed between pick_job and mark_posted.
Crash ==
    /\ pc \in {"render", "upload", "mark"}
    /\ pc' = "aborted"
    /\ UNCHANGED <<queue, now, args, job, out_path, video_id, calls, op,
                   before, prev, pending, telegram>>

\* Lines 712-713: the process ends, by return or by the exception; the next
\* run starts from the queue file and the clock alone.  prev keeps, for the
\* claims, which row a run that ended by an exception had selected.
Exit ==
    /\ pc \in {"no_job", "aborted", "finished", "notified"}
    /\ pc' = "idle"
    /\ args' = NoArgs
    /\ job' = None
    /\ out_path' = ""
    /\ video_id' = ""
    /\ op' = NoOp
    /\ before' = <<>>
    /\ prev' = IF pc = "aborted" THEN job[1].idx_raw ELSE 0
    /\ telegram' = <<>>
    /\ UNCHANGED <<queue, now, calls, pending>>

Next ==
    \/ \E p \in Platforms, m \in MaxLates, d \in BOOLEAN, s \in BOOLEAN,
          t \in Clocks : Start(p, m, d, s, t)
    \/ RenderOk
    \/ RenderFail
    \/ \E id \in VideoIds : UploadOk(id)
    \/ UploadFail
    \/ UploadSkip
    \/ MarkPosted
    \/ MarkSkip
    \/ Crash
    \/ Exit

Spec == Init /\ [][Next]_vars

---------------------------------------------------------------------------
(* Runs with --telegram, the bot token and the chat id set *)

\* telegram_send_video(file_path, caption): what it sends when the request
\* gets through (delivered) and when it does not, and whether it raises.
\* The whole body is inside try/except Exception, which only logs.
telegram_send_video(delivered) ==
    [sent |-> IF delivered THEN <<"video">> ELSE <<"video_failed">>,
     raised |-> FALSE]

\* telegram_send_message(text), likewise.
telegram_send_message(delivered) ==
    IF delivered THEN <<"message">> ELSE <<"message_failed">>

\* Lines 692-700: the video is sent; when that call raises, the caption is
\* sent as a message.
Telegram(video_delivered, message_delivered) ==
    /\ pc = "finished"
    /\ telegram' =
          telegram_send_video(video_delivered).sent
             \o (IF telegram_send_video(video_delivered).raised
                 THEN telegram_send_message(message_delivered)
                 ELSE <<>>)
    /\ pc' = "notified"
    /\ UNCHANGED <<queue, now, args, job, out_path, video_id, calls, op,
                   before, prev, pending>>

NextNotify ==
    \/ Next
    \/ \E video_delivered \in BOOLEAN, message_delivered \in BOOLEAN :
          Telegram(video_delivered, message_delivered)

SpecNotify == Init /\ [][NextNotify]_vars

---------------------------------------------------------------------------
(* Runs over queues that hold rows pick_job cannot schedule *)

\* The lines of those queues: the plain row due at 09:00, the short line
\* due at 10:00 whose time is found by the fallback scan, a row whose date
\* has no thirteenth month, a row whose time has no hour 25, and the short
\* line that holds only a date.
SelectPool ==
    { Line("2024-01-01", "A", "pagi", "", "09:00"),
      ShortLine(Line("2024-01-01", "H", "tayang 10:00", "", ""), 3),
      Line("2024-13-01", "U", "pagi", "", "09:00"),
      Line("2024-01-01", "V", "pagi", "", "25:00"),
      ShortLine(Line("2024-01-01", "", "", "", ""), 1) }

SelectFiles == SeqsUpTo(SelectPool, MaxRows)

InitSelect ==
    /\ queue \in SelectFiles
    /\ now = 0
    /\ pc = "idle"
    /\ args = NoArgs
    /\ job = None
    /\ out_path = ""
    /\ video_id = ""
    /\ calls = 0
    /\ op = NoOp
    /\ before = <<>>
    /\ prev = 0
    /\ pending = NoPending
    /\ telegram = <<>>

\* The runs that end at the selection: no job is due, or the process stops
\* before it renders.
NextSelect ==
    \/ \E p \in Platforms, m \in MaxLates, t \in Clocks :
          Start(p, m, FALSE, FALSE, t)
    \/ Crash
    \/ Exit

SpecSelect == InitSelect /\ [][NextSelect]_vars

---------------------------------------------------------------------------
(* mark_posted called directly, on any arguments *)

\* The rows mark_posted is asked to mark: it reads their Tanggal and Judul.
\* The last one is in no file.
TargetRows ==
    { Line("2024-01-01", "A", "", "", ""),
      Line("01/01/2024", " B", "", "", ""),
      Line("2024-01-01", "H", "", "", ""),
      Line("2024-01-01", "Z", "", "", "") }

CallMarkPosted(target, p, n) ==
    /\ calls < MaxCalls
    /\ calls' = calls + 1
    /\ Marked(target, p, n, mark_posted(queue, target, p, n))
    /\ UNCHANGED <<now, pc, args, job, out_path, video_id, prev, pending,
                   telegram>>

NextCalls ==
    \E target \in TargetRows, tag \in CallTags :
        CallMarkPosted(target, tag.platform, tag.note)

SpecCalls == Init /\ [][NextCalls]_vars

---------------------------------------------------------------------------
(* mark_posted called with platform tags of which one is inside the other *)

\* The platform tag and the note of such a call: the tag "Y" is a prefix of
\* the tag "YT".
TokenTags ==
    { [platform |-> "YT", note |-> ""],
      [platform |-> "Y", note |-> ""],
      [platform |-> "Y", note |-> "abc123"] }

NextTokens ==
    \E target \in TargetRows, tag \in TokenTags :
        CallMarkPosted(target, tag.platform, tag.note)

SpecTokens == Init /\ [][NextTokens]_vars

---------------------------------------------------------------------------
(* Calls of mark_posted by processes that may run at once *)

\* The lines of their queues: the plain row, the row in a secondary date
\* format and the row already posted to YT.
OverlapPool ==
    { Line("2024-01-01", "A", "pagi", "", "09:00"),
      Line(" 01/01/2024", "B ", "siang", " DRAFT", "10:00 "),
      Line("2024-01-01", "C", "siang", "POSTED-YT", "10:00") }

OverlapFiles == SeqsUpTo(OverlapPool, MaxRows)

InitOverlap ==
    /\ queue \in OverlapFiles
    /\ now = 0
    /\ pc = "idle"
    /\ args = NoArgs
    /\ job = None
    /\ out_path = ""
    /\ video_id = ""
    /\ calls = 0
    /\ op = NoOp
    /\ before = <<>>
    /\ prev = 0
    /\ pending = NoPending
    /\ telegram = <<>>

\* Line 250: the call reads the whole file into `rows`.
ReadQueue(proc, target, p, n) ==
    /\ calls < MaxCalls
    /\ pending[proc] = None
    /\ calls' = calls + 1
    /\ pending' = [pending EXCEPT ![proc] =
                      <<[rows |-> read_queue_rows(queue), target |-> target,
                         platform |-> p, note |-> n]>>]
    /\ UNCHANGED <<queue, now, pc, args, job, out_path, video_id, op, before,
                   prev, telegram>>

\* Lines 251-270: the call searches the rows it read, sets the status and
\* rewrites the whole file from them, or returns or raises without writing.
WriteQueue(proc) ==
    /\ pending[proc] # None
    /\ Marked(pending[proc][1].target, pending[proc][1].platform,
              pending[proc][1].note,
              MarkIn(queue, pending[proc][1].rows,
                     normalize_row(pending[proc][1].target),
                     MarkToken(pending[proc][1].platform,
                               pending[proc][1].note)))
    /\ pending' = [pending EXCEPT ![proc] = None]
    /\ UNCHANGED <<now, pc, args, job, out_path, video_id, calls, prev,
                   telegram>>

\* The rows the calls are asked to mark; the last one is in no file.
OverlapTargets ==
    { Line("2024-01-01", "A", "", "", ""),
      Line("01/01/2024", " B", "", "", ""),
      Line("2024-01-01", "Z", "", "", "") }

NextOverlap ==
    \/ \E proc \in Procs, target \in OverlapTargets, p \in Platforms :
          ReadQueue(proc, target, p, "")
    \/ \E proc \in Procs : WriteQueue(proc)

SpecOverlap == InitOverlap /\ [][NextOverlap]_vars

\* Runs of the script, one after the other, on the queues of these lines.
SpecRuns == InitOverlap /\ [][Next]_vars

---------------------------------------------------------------------------
(* main.py: the polling loop *)

\* f"{x}" for a cell: None is written out as the word.
Formatted(c) == IF c = None THEN "None" ELSE c[1]

\* Lines 21-37 of main.py for one line of the file, read by a plain
\* csv.DictReader (nothing stripped): <<dt_wib>> when the line has no
\* status and its Tanggal and JamWIB (07:30 when the column is absent)
\* parse as '%Y-%m-%d %H:%M' to an instant after `clock`, <<>> when the
\* line is skipped.
UpcomingOf(line, parsed, clock) ==
    IF Strip(OrEmpty(IF "Status" \in DOMAIN line THEN line["Status"]
                     ELSE None)) # ""
    THEN <<>>
    ELSE IF parsed.ok /\ parsed.t > clock THEN <<parsed.t>> ELSE <<>>

RECURSIVE ScheduleTimes(_, _, _)
ScheduleTimes(file, n, clock) ==
    IF n = 0 THEN <<>>
    ELSE ScheduleTimes(file, n - 1, clock)
            \o UpcomingOf(file[n],
                          Strptime(Formatted(IF "Tanggal" \in DOMAIN file[n]
                                             THEN file[n]["Tanggal"]
                                             ELSE None)
                                     \o " "
                                     \o Formatted(IF "JamWIB" \in DOMAIN file[n]
                                                  THEN file[n]["JamWIB"]
                                                  ELSE S("07:30")),
                                   "-", TRUE),
                          clock)

\* schedule_times.sort()
RECURSIVE InsertTime(_, _)
InsertTime(sorted, t) ==
    IF sorted = <<>> THEN <<t>>
    ELSE IF t < sorted[Len(sorted)]
         THEN Append(InsertTime(SubSeq(sorted, 1, Len(sorted) - 1), t),
                     sorted[Len(sorted)])
         ELSE Append(sorted, t)

RECURSIVE SortTimes(_)
SortTimes(times) ==
    IF times = <<>> THEN <<>>
    ELSE InsertTime(SortTimes(SubSeq(times, 1, Len(times) - 1)),
                    times[Len(times)])

\* get_upcoming_schedule(csv_path), reading the clock as `clock`.
get_upcoming_schedule(file, clock) ==
    SortTimes(ScheduleTimes(file, Len(file), clock))

\* The job check wakes this many seconds before the schedule (line 59).
WakeAhead == 60

\* The sleep after a job check (line 72), and the sleep when no schedule is
\* ahead (line 77), in seconds.
AfterCheck == 120

IdleSleep == 6 * 3600

\* The loop is followed up to this clock reading: the end of 2024-01-01.
MaxNow == 86400

\* What a job check does with the selection it made: a selected row is
\* rendered, published and marked.
PostPicked(file, picked, platform) ==
    IF picked = None THEN [file |-> file, outcome |-> "none", idx |-> 0]
    ELSE mark_posted(file, picked[1].row, platform, "abc123")

\* run_job_check(): one selection-and-post cycle on the queue at the clock
\* reading `clock`.
run_job_check(file, clock, platform, max_late_seconds) ==
    PostPicked(file, pick_job(file, clock, max_late_seconds), platform)

\* The lines of the loop's queues: rows without a status due at 09:00, at
\* 09:02 and at 10:00.
LoopPool ==
    { Line("2024-01-01", "A", "pagi", "", "09:00"),
      Line("2024-01-01", "E", "pagi", "", "09:02"),
      Line("2024-01-01", "D", "siang", "", "10:00") }

\* The queues of the loop: up to MaxRows lines, no line twice.
LoopFiles ==
    {q \in SeqsUpTo(LoopPool, MaxRows) :
        \A i \in 1..Len(q) : \A j \in 1..Len(q) : q[i] = q[j] => i = j}

\* The loop starts at 08:53:20 or at 08:59:30, before every schedule of the
\* pool.
LoopStarts == {32000, 32370}

InitLoop ==
    /\ queue \in LoopFiles
    /\ now \in LoopStarts
    /\ pc = "loop"
    /\ \E m \in MaxLates :
          args = [platform |-> "YT", max_late_seconds |-> m,
                  dry_run |-> FALSE, skip_upload |-> FALSE]
    /\ job = None
    /\ out_path = ""
    /\ video_id = ""
    /\ calls = 0
    /\ op = NoOp
    /\ before = <<>>
    /\ prev = 0
    /\ pending = NoPending
    /\ telegram = <<>>

\* Lines 52-63: a schedule is ahead; the loop sleeps until WakeAhead seconds
\* before the nearest one, or not at all when that instant has passed.
SleepUntilNext(upcoming_jobs) ==
    /\ pc = "loop"
    /\ upcoming_jobs # <<>>
    /\ now' = IF upcoming_jobs[1] - now - WakeAhead > 0
              THEN upcoming_jobs[1] - WakeAhead
              ELSE now
    /\ pc' = "check"
    /\ UNCHANGED <<queue, args, job, out_path, video_id, calls, op, before,
                   prev, pending, telegram>>

\* Lines 66-67: the job check.
RunJobCheck(r) ==
    /\ pc = "check"
    /\ queue' = r.file
    /\ op' = [NoOp EXCEPT !.kind = "check", !.platform = args.platform,
                          !.clock = now, !.outcome = r.outcome,
                          !.idx = r.idx]
    /\ before' = queue
    /\ pc' = "wait"
    /\ UNCHANGED <<now, args, job, out_path, video_id, calls, prev, pending,
                   telegram>>

\* Line 72
SleepAfterCheck ==
    /\ pc = "wait"
    /\ now' = now + AfterCheck
    /\ pc' = "loop"
    /\ UNCHANGED <<queue, args, job, out_path, video_id, calls, op, before,
                   prev, pending, telegram>>

\* Lines 74-77: no schedule is ahead; the loop sleeps and looks again.
SleepIdle(upcoming_jobs) ==
    /\ pc = "loop"
    /\ upcoming_jobs = <<>>
    /\ now < MaxNow
    /\ now' = now + IdleSleep
    /\ UNCHANGED <<queue, pc, args, job, out_path, video_id, calls, op,
                   before, prev, pending, telegram>>

NextLoop ==
    \/ SleepUntilNext(get_upcoming_schedule(queue, now))
    \/ RunJobCheck(run_job_check(queue, now, args.platform,
                                 args.max_late_seconds))
    \/ SleepAfterCheck
    \/ SleepIdle(get_upcoming_schedule(queue, now))

SpecLoop == InitLoop /\ [][NextLoop]_vars

---------------------------------------------------------------------------
(* The specification's terms *)

\* A queue record as the specification has it: every field of the row a
\* trimmed string, a missing field the empty string.
Record(row) == [k \in ExpectedKeys |-> Strip(OrEmpty(normalize_row(row)[k]))]

\* The records of a queue file, in row order.
Records(file) == [i \in 1..Len(file) |-> Record(read_queue_rows(file)[i])]

\* The tokens of a status: its pieces between "|".
RECURSIVE Tokens(_)
Tokens(status) ==
    IF IndexOf(status, "|") = 0 THEN {status}
    ELSE {SubSeq(status, 1, IndexOf(status, "|") - 1)}
            \cup Tokens(SubSeq(status, IndexOf(status, "|") + 1, Len(status)))

\* POSTED-<platform> or POSTED-<platform>(<note>)
IsPostedToken(token, platform) ==
    \/ token = "POSTED-" \o platform
    \/ /\ StartsWith(token, "POSTED-" \o platform \o "(")
       /\ Char(token, Len(token)) = ")"

HasPostedToken(status, platform) ==
    \E token \in Tokens(status) : IsPostedToken(token, platform)

\* The instant a row is scheduled at, <<t>>, or <<>> when its date and time
\* do not resolve.
ScheduledAt(row) ==
    LET dt == OwnOrFallback(normalize_row(row),
                            Strip(OrEmpty(normalize_row(row)["Tanggal"])),
                            Strip(OrEmpty(normalize_row(row)["JamWIB"])))
    IN  IF dt.tanggal = "" \/ dt.jam = "" THEN <<>>
        ELSE IF parse_wib_time(dt.tanggal, dt.jam).ok
             THEN <<parse_wib_time(dt.tanggal, dt.jam).t>>
             ELSE <<>>

\* The last operation was a selection.
Picked == op.kind = "pick"

\* The position in the queue of the row the selection returned, 0 for none.
Selected == IF op.result = None THEN 0 ELSE op.result[1].idx_raw

\* The lateness of row i of the queue the selection read, at the instant it
\* read the clock.
Lateness(i) == op.clock - ScheduledAt(read_queue_rows(before)[i])[1]

\* The rows of that queue that are due: scheduled, and inside the window.
DueRows ==
    {i \in 1..Len(before) :
        /\ ScheduledAt(read_queue_rows(before)[i]) # <<>>
        /\ 0 <= Lateness(i)
        /\ Lateness(i) <= op.max_late_seconds}

\* The rows that are eligible: due, and holding no POSTED token of the
\* platform of the run.
EligibleRows ==
    {i \in DueRows : ~HasPostedToken(Records(before)[i]["Status"], op.platform)}

\* The last operation was a call of mark_posted.
Marking == op.kind = "mark"

\* The position of the first record of a file with the natural key
\* (scheduledDate, title) of the target, 0 when there is none.
MatchIndex(file, target) ==
    LET hits == {i \in 1..Len(file) :
                    /\ Records(file)[i]["Tanggal"] = Record(target)["Tanggal"]
                    /\ Records(file)[i]["Judul"] = Record(target)["Judul"]}
    IN  IF hits = {} THEN 0 ELSE CHOOSE i \in hits : \A j \in hits : i <= j

\* The token mark_posted is to put down.
PostedToken(platform, note) ==
    IF note = "" THEN "POSTED-" \o platform
    ELSE "POSTED-" \o platform \o "(" \o note \o ")"

---------------------------------------------------------------------------
(* The claims *)

\* C1: exclusion of posted records is per platform.  A record whose status
\* is POSTED-<Q> is never selected by a run for platform Q, and a run for
\* another platform selects it when it is the only due record.
C1_PerPlatformExclusion ==
    Picked =>
        \A i \in 1..Len(before) : \A q \in Platforms :
            Records(before)[i]["Status"] = "POSTED-" \o q =>
                /\ q = op.platform => Selected # i
                /\ (q # op.platform /\ DueRows = {i}) => Selected = i

\* C2: over any sequence of runs, a record whose status holds a POSTED token
\* of platform P, first among its tokens or not, is never selected by a run
\* for P.
C2_NeverSelectedAgain ==
    (Picked /\ Selected # 0) =>
        ~HasPostedToken(Records(before)[Selected]["Status"], op.platform)

\* C3: a selected record has 0 <= lateness <= maxLatenessSeconds; the only
\* eligible record is selected when its lateness is 0 or exactly the
\* maximum; a record one second beyond the maximum, or scheduled in the
\* future, is never selected.
C3_LatenessWindow ==
    Picked =>
        /\ Selected # 0 =>
              /\ 0 <= Lateness(Selected)
              /\ Lateness(Selected) <= op.max_late_seconds
        /\ \A i \in 1..Len(before) :
              (EligibleRows = {i} /\ Lateness(i) \in {0, op.max_late_seconds})
                  => Selected = i
        /\ \A i \in 1..Len(before) :
              (/\ ScheduledAt(read_queue_rows(before)[i]) # <<>>
               /\ \/ Lateness(i) < 0
                  \/ Lateness(i) = op.max_late_seconds + 1)
                  => Selected # i

\* C4: when several records are eligible the selection returns one of the
\* smallest lateness, and of those the first in row order.
C4_SmallestLatenessFirst ==
    (Picked /\ Cardinality(EligibleRows) >= 2) =>
        /\ Selected \in EligibleRows
        /\ \A j \in EligibleRows :
              /\ Lateness(Selected) <= Lateness(j)
              /\ Lateness(j) = Lateness(Selected) => Selected <= j

\* C5: the selection returns nothing or one record of the queue, nothing
\* exactly when no record is eligible; a run that selected nothing has
\* rendered nothing, published nothing, marked nothing and left the queue as
\* it was.
C5_NothingOrOneRecord ==
    /\ Picked =>
          /\ Selected = 0 <=> EligibleRows = {}
          /\ Selected # 0 =>
                /\ Selected \in 1..Len(before)
                /\ Record(op.result[1].row) = Records(before)[Selected]
    /\ pc = "no_job" =>
          /\ Picked /\ Selected = 0
          /\ queue = before
          /\ out_path = "" /\ video_id = ""

\* C6: mark_posted is idempotent.  A call with the target, platform tag and
\* note of the call before it leaves every record of the queue as that call
\* left it.
C6_MarkPostedIdempotent ==
    [][(/\ Marking
        /\ calls' = calls + 1
        /\ op'.target = op.target
        /\ op'.platform = op.platform
        /\ op'.note = op.note)
            => Records(queue') = Records(queue)]_vars

\* C7: for a target that is in the queue, mark_posted puts down the token
\* POSTED-<platformTag>, with (<note>) behind it when the note is not empty:
\* an empty status becomes the token, and a status that is not empty and
\* does not contain the token becomes the old status, "|" and the token.
C7_TokenSetOrAppended ==
    (Marking /\ MatchIndex(before, op.target) # 0) =>
        LET i == MatchIndex(before, op.target)
            old == Records(before)[i]["Status"]
            new == OrEmpty(Get(queue[i], "Status"))
            token == PostedToken(op.platform, op.note)
        IN  /\ old = "" => new = token
            /\ (old # "" /\ ~Contains(old, token)) => new = old \o "|" \o token

\* C8: mark_posted changes nothing but the Status of the one matched record.
\* After the call the queue holds as many records as before, in the same
\* order, and a field that differs is the Status of the first record with
\* the target's key.
C8_OnlyMatchedStatusChanges ==
    Marking =>
        LET old == Records(before)
            new == Records(queue)
            matched == MatchIndex(before, op.target)
        IN  /\ Len(new) = Len(old)
            /\ \A i \in 1..Len(old) : \A k \in ExpectedKeys :
                  new[i][k] # old[i][k] => (k = "Status" /\ i = matched)

\* A call of mark_posted on a queue of two different records has rewritten
\* the file and changed a Status.
C8_Witness ==
    /\ Marking
    /\ op.outcome = "written"
    /\ Len(before) = 2
    /\ Records(before)[1] # Records(before)[2]
    /\ Records(queue) # Records(before)

\* C9: when no record of the queue has the target's key, or the queue is
\* empty, mark_posted only logs: it returns without raising and the queue
\* file is as it was.
C9_NotFoundOnlyLogged ==
    (Marking /\ MatchIndex(before, op.target) = 0) =>
        /\ op.outcome \in {"empty", "not_found"}
        /\ queue = before

\* C10: the Status Updater runs only after rendering and publishing have
\* succeeded: a run that has called mark_posted has rendered the video and
\* has the id of the published video, and a run that failed left the queue
\* as it found it.
C10_MarkedOnlyAfterPublishing ==
    /\ (Marking /\ pc = "finished") => (out_path # "" /\ video_id # "")
    /\ pc = "aborted" => (Picked /\ queue = before)

C12_DryRunPublishes ==
    (pc = "finished" /\ args.dry_run) => (queue = before /\ video_id # "")

\* C12: a run with --dry-run performs selection, synthesis and rendering,
\* skips the upload and the Status Updater call, and so leaves the queue
\* identical to the queue before it.
C12_DryRunLeavesQueue ==
    args.dry_run =>
        /\ queue = before
        /\ video_id = ""
        /\ pc = "finished" => (Picked /\ out_path = OutName(job[1].row))

C12_Witness ==
    /\ pc = "finished"
    /\ args.dry_run
    /\ Picked
    /\ out_path # ""

\* The lines of a file whose date and time resolve, in their order.
Resolvable(file) ==
    SelectSeq(file, LAMBDA line : ScheduledAt(read_queue_rows(<<line>>)[1]) # <<>>)

\* C13: a record whose date and time cannot be resolved (unparsable, or
\* blank with no fallback match) is skipped without failing the pass, and
\* its presence anywhere in the queue never changes which of the other
\* records is selected: the selection is the one made from the queue
\* without the unresolvable records.
C13_UnresolvableSkipped ==
    Picked =>
        LET others == Resolvable(before)
            alone == pick_job(others, op.clock, op.max_late_seconds)
        IN  IF alone = None THEN op.result = None
            ELSE /\ op.result # None
                 /\ op.result[1].row = alone[1].row
                 /\ op.result[1].scheduled_dt = alone[1].scheduled_dt
                 /\ Resolvable(SubSeq(before, 1, op.result[1].idx_raw))
                        = SubSeq(others, 1, alone[1].idx_raw)

\* A selection from a queue whose selected row has an unresolvable row
\* before it.
C13_Witness ==
    /\ Picked
    /\ op.result # None
    /\ \E i \in 1..(Selected - 1) :
           ScheduledAt(read_queue_rows(before)[i]) = <<>>

\* C14: after mark_posted(target, P, note) has located the target record
\* and returned, that record is handled for platform P: its status holds
\* POSTED-P or POSTED-P(<note>) as a whole token between "|", whatever the
\* status was before, also when the token occurs in it only inside a longer
\* token.
C14_WholeTokenAfterMark ==
    (Marking /\ op.outcome = "written") =>
        HasPostedToken(Records(queue)[op.idx]["Status"], op.platform)

\* C15: the record whose status mark_posted changes in a run is the record,
\* at the same row position, that the selection of that run returned, also
\* in a queue where two rows have the same date and title.
C15_MarksSelectedRow ==
    (Marking /\ pc = "finished") =>
        \A i \in 1..Len(queue) :
            Records(queue)[i]["Status"] # Records(before)[i]["Status"]
                => i = job[1].idx_raw

\* C16: under the polling loop every record without a status whose schedule
\* was ahead when the loop started is picked by a job check made while its
\* lateness is between 0 and the most allowed, the last record of the queue
\* too: no such record is still without a status once it is later than
\* that.
C16_EveryRecordPicked ==
    \A i \in 1..Len(queue) :
        LET at == ScheduledAt(read_queue_rows(queue)[i])
        IN  (Records(queue)[i]["Status"] = "" /\ at # <<>>)
                => now - at[1] <= args.max_late_seconds

\* Every POSTED token of every record of the queue is a token of the same
\* record after the step.
TokensKept ==
    LET old == Records(queue)
        new == Records(queue')
    IN  /\ Len(queue') = Len(queue)
        /\ \A i \in 1..Len(queue) :
               \A token \in Tokens(old[i]["Status"]) :
                   StartsWith(token, "POSTED-")
                       => token \in Tokens(new[i]["Status"])

\* A call of mark_posted ends whose target is another record than the
\* target of the call that ended before it.
WritesAnotherRecord ==
    \E proc \in Procs :
        /\ pending[proc] # None
        /\ pending'[proc] = None
        /\ Marking
        /\ <<Record(op.target)["Tanggal"], Record(op.target)["Judul"]>>
              # <<Record(pending[proc][1].target)["Tanggal"],
                  Record(pending[proc][1].target)["Judul"]>>

\* C17 as written, in the case it names: status tokens are never lost when
\* calls of mark_posted on different records follow each other, also when
\* the read and the write of the two calls interleave.
C17_TokensNeverLost == [][WritesAnotherRecord => TokensKept]_vars

\* A call of mark_posted ends, and the file is as the call read it.
WritesOnFreshRead ==
    \E proc \in Procs :
        /\ pending[proc] # None
        /\ pending'[proc] = None
        /\ pending[proc][1].rows = read_queue_rows(queue)

\* C17: status tokens are never lost across any sequence of calls of
\* mark_posted that do not overlap: a call that writes the file it read,
\* unwritten by any other call in between, keeps every POSTED token of
\* every record.
C17_TokensKeptWithoutOverlap == [][WritesOnFreshRead => TokensKept]_vars

\* A call has appended its token to a status that held a POSTED token.
C17_Witness ==
    /\ Marking
    /\ op.outcome = "written"
    /\ pending = NoPending
    /\ \E token \in Tokens(Records(before)[op.idx]["Status"]) :
           StartsWith(token, "POSTED-")
    /\ Records(queue)[op.idx]["Status"] # Records(before)[op.idx]["Status"]

\* C18: with --telegram and the credentials set, a run whose video did not
\* get through to Telegram has gone on to send the caption as a plain
\* message, has not been aborted, and has left the queue as the marking
\* wrote it.
C18_FallsBackToMessage ==
    (pc = "notified" /\ telegram # <<>> /\ telegram[1] = "video_failed") =>
        /\ Len(telegram) = 2
        /\ telegram[2] \in {"message", "message_failed"}
        /\ Marking => queue = mark_posted(before, op.target, op.platform,
                                          op.note).file

====
